---- MODULE Spec2Model ----
(***************************************************************************)
(* Model of gradio_hotel_receptionist_2.py: the SQLite room inventory      *)
(* (initialize_database, get_room_details, checkout_room) and the          *)
(* tool-call resolution loop of chat.                                      *)
(*                                                                         *)
(* Strings whose content the code inspects (room_type arguments and room   *)
(* names) are sequences of one-character strings, so that strip(), lower() *)
(* and SQL LOWER() are computed and not assumed.                           *)
(***************************************************************************)
EXTENDS Integers, Sequences, FiniteSets, TLC

(***************************************************************************)
(* Bounds of the model.                                                    *)
(***************************************************************************)
\* Number of threads that may call into the module at the same time.
NumCallers == 2
\* Calls started in one behaviour of the concurrent specification.
MaxCalls == 4
\* Sold-out answers in one behaviour of the sequential specification.
MaxSoldOut == 2
\* Tool calls the model requests in one behaviour of chat.
MaxToolCalls == 3
\* Entries of the chatbot's history up to which the user submits a message.
MaxHistory == 4

Callers == 1..NumCallers

(***************************************************************************)
(* Strings.                                                                *)
(***************************************************************************)
UpperCase == <<"A","B","C","D","E","F","G","H","I","J","K","L","M","N","O","P","Q","R","S","T","U","V","W","X","Y","Z">>
LowerCase == <<"a","b","c","d","e","f","g","h","i","j","k","l","m","n","o","p","q","r","s","t","u","v","w","x","y","z">>
WhiteSpace == {" ", "\t", "\n"}

\* The characters the strings of the model are made of.
Chars ==
  {UpperCase[k] : k \in 1..Len(UpperCase)} \cup {LowerCase[k] : k \in 1..Len(LowerCase)}
    \cup WhiteSpace

\* str.lower() on one character: an upper-case letter becomes its lower-case
\* letter, any other character stays.
LowerTable ==
  [c \in Chars |->
     IF \E k \in 1..Len(UpperCase) : UpperCase[k] = c
     THEN LowerCase[CHOOSE k \in 1..Len(UpperCase) : UpperCase[k] = c]
     ELSE c]

lower_char(c) == LowerTable[c]

\* str.lower()
str_lower(s) == [i \in 1..Len(s) |-> lower_char(s[i])]

RECURSIVE str_lstrip(_)
str_lstrip(s) ==
  IF s # <<>> /\ Head(s) \in WhiteSpace THEN str_lstrip(Tail(s)) ELSE s

RECURSIVE str_rstrip(_)
str_rstrip(s) ==
  IF s # <<>> /\ s[Len(s)] \in WhiteSpace
  THEN str_rstrip(SubSeq(s, 1, Len(s) - 1))
  ELSE s

\* str.strip()
str_strip(s) == str_rstrip(str_lstrip(s))

\* room_type.strip().lower()
normalize(room_type) == str_lower(str_strip(room_type))

\* SQL LOWER(name)
sql_LOWER(name) == str_lower(name)

DeluxeSuite == <<"D","e","l","u","x","e"," ","S","u","i","t","e">>
OceanViewRoom == <<"O","c","e","a","n"," ","V","i","e","w"," ","R","o","o","m">>
GardenViewRoom == <<"G","a","r","d","e","n"," ","V","i","e","w"," ","R","o","o","m">>
StandardRoom == <<"S","t","a","n","d","a","r","d"," ","R","o","o","m">>

StrAll == <<"a","l","l">>
StrRooms == <<"r","o","o","m","s">>
StrAvailable == <<"a","v","a","i","l","a","b","l","e">>

(***************************************************************************)
(* The rows initialize_database inserts: (name, description,               *)
(* price_per_night, availability).                                         *)
(***************************************************************************)
SeedRooms ==
  << <<DeluxeSuite, "Spacious suite with a king bed, private balcony, and panoramic bay view.", 420, 6>>,
     <<OceanViewRoom, "Elegant room with ocean-facing windows and a queen bed.", 320, 4>>,
     <<GardenViewRoom, "Cozy room overlooking the hotel gardens, ideal for couples.", 250, 1>>,
     <<StandardRoom, "Comfortable, affordable option with all essential amenities.", 180, 10>> >>

RoomIds == 1..Len(SeedRooms)

\* The availability a room is seeded with.
SeedAvailability(id) == SeedRooms[id][4]

(***************************************************************************)
(* State.                                                                  *)
(*   dbExists  hotel.db exists on disk                                     *)
(*   rooms     the rows of table rooms, in rowid order; rooms[i].id = i    *)
(*   loaded    the module has been executed by a running process           *)
(*   pc, row   per thread: its position and checkout_room's local row      *)
(*   ret       the value returned by the step just taken (op "none" when   *)
(*             the step returned nothing)                                  *)
(*   ok, sold  per room id: checkout_room calls that returned a            *)
(*             Confirmation / the fully-booked error (history)             *)
(*   nCalls    calls started (history, bounds the concurrent behaviours)   *)
(* and per thread, the locals of its chat invocation:                      *)
(*   history          the list passed to chat (chat appends to it)         *)
(*   messages         the transcript sent to the model                     *)
(*   generated_image  the image chat will return                           *)
(*   tool_calls, tc_index                                                  *)
(*                    message_obj.tool_calls and the index of the one the  *)
(*                    for loop is at                                       *)
(*   result           the dict of the tool call being handled              *)
(*   out              what chat returned: (history, voice, generated_image)*)
(*   invocations, toolResponses, requested                                 *)
(*                    calls of client.chat.completions.create, responses   *)
(*                    with tool calls, tool calls requested (history)      *)
(***************************************************************************)
VARIABLES dbExists, rooms, loaded, pc, row, ret, ok, sold, nCalls,
          history, messages, generated_image, tool_calls, tc_index, result, out,
          invocations, toolResponses, requested

chatVars == <<history, messages, generated_image, tool_calls, tc_index, result, out,
              invocations, toolResponses, requested>>

vars == <<dbExists, rooms, loaded, pc, row, ret, ok, sold, nCalls, chatVars>>

NoRow == [id |-> 0, name |-> <<>>, description |-> "", price_per_night |-> 0, availability |-> 0]
NoResult == [kind |-> "none", body |-> <<>>]
NoRet == [op |-> "none", arg |-> <<>>, result |-> NoResult]
NoImage == [kind |-> "none", prompt |-> <<>>]
NoOutput == [kind |-> "none"]

\* The chat locals of threads that are not in chat.
ChatIdle ==
  /\ history = [p \in Callers |-> <<>>]
  /\ messages = [p \in Callers |-> <<>>]
  /\ generated_image = [p \in Callers |-> NoImage]
  /\ tool_calls = [p \in Callers |-> <<>>]
  /\ tc_index = [p \in Callers |-> 0]
  /\ result = [p \in Callers |-> NoResult]
  /\ out = [p \in Callers |-> NoOutput]
  /\ invocations = [p \in Callers |-> 0]
  /\ toolResponses = [p \in Callers |-> 0]
  /\ requested = [p \in Callers |-> 0]

Returned(op, arg, value) == [op |-> op, arg |-> arg, result |-> value]

(***************************************************************************)
(* initialize_database                                                     *)
(***************************************************************************)
\* INSERT INTO rooms (name, description, price_per_night, availability):
\* id is the AUTOINCREMENT key.
InsertRoom(table, r) ==
  Append(table, [id |-> Len(table) + 1, name |-> r[1], description |-> r[2],
                 price_per_night |-> r[3], availability |-> r[4]])

\* executemany: one INSERT per tuple, in order.
RECURSIVE InsertMany(_, _)
InsertMany(table, rs) ==
  IF rs = <<>> THEN table ELSE InsertMany(InsertRoom(table, Head(rs)), Tail(rs))

\* Mutant of TableIsEmpty: the seed rows are inserted whatever the table holds.
TableIsEmpty_Always(table) == TRUE

\* SELECT COUNT(*) FROM rooms ... if count == 0
TableIsEmpty(table) == Len(table) = 0

\* The table after initialize_database has run on it.
Seeded(table) == IF TableIsEmpty(table) THEN InsertMany(table, SeedRooms) ELSE table

\* A direct call of initialize_database() by thread p.
initialize_database(p) ==
  /\ loaded
  /\ pc[p] = "idle"
  /\ dbExists' = TRUE
  /\ rooms' = Seeded(rooms)
  /\ ret' = Returned("initialize_database", <<>>, NoResult)
  /\ UNCHANGED <<loaded, pc, row, ok, sold>>

\* Module level: if not os.path.exists(DB_PATH): initialize_database()
ModuleLoad ==
  /\ ~loaded
  /\ loaded' = TRUE
  /\ dbExists' = TRUE
  /\ rooms' = IF dbExists THEN rooms ELSE Seeded(rooms)
  /\ ret' = Returned("module_load", <<>>, NoResult)
  /\ UNCHANGED <<pc, row, ok, sold>>

\* The process ends (and is started again by ModuleLoad): every thread and its
\* locals are gone, hotel.db stays.
ProcessExit ==
  /\ loaded
  /\ loaded' = FALSE
  /\ pc' = [p \in Callers |-> "idle"]
  /\ row' = [p \in Callers |-> NoRow]
  /\ ret' = NoRet
  /\ history' = [p \in Callers |-> <<>>]
  /\ messages' = [p \in Callers |-> <<>>]
  /\ generated_image' = [p \in Callers |-> NoImage]
  /\ tool_calls' = [p \in Callers |-> <<>>]
  /\ tc_index' = [p \in Callers |-> 0]
  /\ result' = [p \in Callers |-> NoResult]
  /\ out' = [p \in Callers |-> NoOutput]
  /\ invocations' = [p \in Callers |-> 0]
  /\ toolResponses' = [p \in Callers |-> 0]
  /\ requested' = [p \in Callers |-> 0]
  /\ UNCHANGED <<dbExists, rooms, ok, sold>>

(***************************************************************************)
(* get_room_details                                                        *)
(***************************************************************************)
\* Mutant of SelectAllRooms: the "all" query carries the filter of "available".
SelectAllRooms_Filtered(table) == SelectSeq(table, LAMBDA r : r.availability > 0)

SelectAllRooms(table) == table

\* ... WHERE availability > 0
SelectAvailable(table) == SelectSeq(table, LAMBDA r : r.availability > 0)

\* ... WHERE LOWER(name) = ?
SelectByName(table, key) == SelectSeq(table, LAMBDA r : sql_LOWER(r.name) = key)

\* The rows get_room_details fetches for the normalized room_type.
QueryRows(table, room_type) ==
  IF room_type \in {StrAll, StrRooms} THEN SelectAllRooms(table)
  ELSE IF room_type = StrAvailable THEN SelectAvailable(table)
  ELSE SelectByName(table, room_type)

NotFoundError(room_type) == [kind |-> "error", body |-> <<"not_found", room_type>>]

\* {name: {"description", "price_per_night", "availability"} for ... in rows}
RoomsDict(rows) ==
  [n \in {rows[i].name : i \in 1..Len(rows)} |->
     LET r == rows[CHOOSE i \in 1..Len(rows) :
                     /\ rows[i].name = n
                     /\ \A j \in 1..Len(rows) : rows[j].name = n => j <= i]
     IN [description |-> r.description, price_per_night |-> r.price_per_night,
         availability |-> r.availability]]

\* Mutant of NoRows: the empty result is not checked for.
NoRows_Never(rows) == FALSE

\* if not rows
NoRows(rows) == Len(rows) = 0

\* The value get_room_details(room_type) returns on the table.
get_room_details_result(table, room_type) ==
  LET rt == normalize(room_type)
      rows == QueryRows(table, rt)
  IN IF NoRows(rows) THEN NotFoundError(rt)
     ELSE [kind |-> "rooms", body |-> RoomsDict(rows)]

\* A direct call of get_room_details(room_type) by thread p: one SELECT.
get_room_details(p, room_type) ==
  /\ loaded
  /\ pc[p] = "idle"
  /\ ret' = Returned("get_room_details", room_type, get_room_details_result(rooms, room_type))
  /\ UNCHANGED <<dbExists, rooms, loaded, pc, row, ok, sold>>

(***************************************************************************)
(* checkout_room                                                           *)
(***************************************************************************)
\* row = c.fetchone() ... if not row
RowMissing(found) == Len(found) = 0

\* Mutant of FullyBooked: only a negative availability refuses the reservation.
FullyBooked_Strict(availability) == availability < 0

\* if availability <= 0
FullyBooked(availability) == availability <= 0

SoldOutError(name) == [kind |-> "error", body |-> <<"fully_booked", name>>]

\* new_availability = availability - 1
NewAvailability(availability) == availability - 1

\* Mutant of UpdateAvailability: the UPDATE selects the row by the availability
\* that was read (WHERE availability = ?) and not by its id.
UpdateAvailability_ByValue(table, new_availability, room_id) ==
  [i \in 1..Len(table) |->
     IF table[i].availability = new_availability + 1
     THEN [table[i] EXCEPT !.availability = new_availability]
     ELSE table[i]]

\* Mutant of UpdateAvailability: the UPDATE has no WHERE clause.
UpdateAvailability_NoWhere(table, new_availability, room_id) ==
  [i \in 1..Len(table) |-> [table[i] EXCEPT !.availability = new_availability]]

\* UPDATE rooms SET availability = ? WHERE id = ?
UpdateAvailability(table, new_availability, room_id) ==
  [i \in 1..Len(table) |->
     IF table[i].id = room_id
     THEN [table[i] EXCEPT !.availability = new_availability]
     ELSE table[i]]

\* Mutant of Confirmation: remaining_availability is the availability read,
\* not the one written.
Confirmation_Stale(r, new_availability) ==
  [kind |-> "confirmation",
   body |-> [room |-> r.name, description |-> r.description,
             price_per_night |-> r.price_per_night,
             remaining_availability |-> r.availability,
             message |-> <<"Reservation confirmed for", r.name>>]]

\* The dict checkout_room returns after its commit.
Confirmation(r, new_availability) ==
  [kind |-> "confirmation",
   body |-> [room |-> r.name, description |-> r.description,
             price_per_night |-> r.price_per_night,
             remaining_availability |-> new_availability,
             message |-> <<"Reservation confirmed for", r.name>>]]

\* Mutant of checkout_room_select: the UPDATE is issued as soon as a row is
\* found, before the availability check.
checkout_room_select_WriteFirst(p, room_type) ==
  /\ loaded
  /\ pc[p] = "idle"
  /\ LET found == SelectByName(rooms, normalize(room_type))
     IN IF RowMissing(found)
        THEN /\ ret' = Returned("checkout_room", room_type, NotFoundError(room_type))
             /\ UNCHANGED <<pc, row, sold, rooms>>
        ELSE IF FullyBooked(Head(found).availability)
        THEN /\ ret' = Returned("checkout_room", room_type, SoldOutError(Head(found).name))
             /\ sold' = [sold EXCEPT ![Head(found).id] = @ + 1]
             /\ rooms' = UpdateAvailability(rooms, NewAvailability(Head(found).availability),
                                            Head(found).id)
             /\ UNCHANGED <<pc, row>>
        ELSE /\ pc' = [pc EXCEPT ![p] = "checkout_update"]
             /\ row' = [row EXCEPT ![p] = Head(found)]
             /\ ret' = NoRet
             /\ UNCHANGED <<sold, rooms>>
  /\ UNCHANGED <<dbExists, loaded, ok>>

\* checkout_room up to and including its early returns: the SELECT, fetchone,
\* and the two error returns. A thread that passes both checks holds the row
\* it read in its local variables and has not written yet.
checkout_room_select(p, room_type) ==
  /\ loaded
  /\ pc[p] = "idle"
  /\ LET found == SelectByName(rooms, normalize(room_type))
     IN IF RowMissing(found)
        THEN /\ ret' = Returned("checkout_room", room_type, NotFoundError(room_type))
             /\ UNCHANGED <<pc, row, sold>>
        ELSE IF FullyBooked(Head(found).availability)
        THEN /\ ret' = Returned("checkout_room", room_type, SoldOutError(Head(found).name))
             /\ sold' = [sold EXCEPT ![Head(found).id] = @ + 1]
             /\ UNCHANGED <<pc, row>>
        ELSE /\ pc' = [pc EXCEPT ![p] = "checkout_update"]
             /\ row' = [row EXCEPT ![p] = Head(found)]
             /\ ret' = NoRet
             /\ UNCHANGED sold
  /\ UNCHANGED <<dbExists, rooms, loaded, ok>>

\* checkout_room from new_availability on: the UPDATE, the commit and the
\* Confirmation, computed from the row read earlier.
checkout_room_update(p) ==
  /\ loaded
  /\ pc[p] = "checkout_update"
  /\ LET new_availability == NewAvailability(row[p].availability)
     IN /\ rooms' = UpdateAvailability(rooms, new_availability, row[p].id)
        /\ ret' = Returned("checkout_room", row[p].name, Confirmation(row[p], new_availability))
  /\ ok' = [ok EXCEPT ![row[p].id] = @ + 1]
  /\ pc' = [pc EXCEPT ![p] = "idle"]
  /\ row' = [row EXCEPT ![p] = NoRow]
  /\ UNCHANGED <<dbExists, loaded, sold>>

(***************************************************************************)
(* chat: the tool-call resolution loop.                                    *)
(*                                                                         *)
(* A thread's position in chat:                                            *)
(*   "awaiting_model"        about to call client.chat.completions.create  *)
(*   "dispatch"              in the for loop, at tool_calls[tc_index]      *)
(*   "chat_checkout_update"  in checkout_room, between SELECT and UPDATE   *)
(*   "artist"                checkout_room returned a booking; about to    *)
(*                           call artist                                   *)
(*   "talker"                the model answered without tool calls; about  *)
(*                           to call talker                                *)
(*   "returned" / "failed"   chat returned / an exception left chat        *)
(* The content of a tool message is the result dict itself (json.dumps is  *)
(* not modelled).                                                          *)
(***************************************************************************)
SYSTEM_PROMPT == "You are a warm, professional hotel receptionist at Marina Vista Hotel, ..."

\* Mutant of PastMessages: each entry is put right after the system prompt, so
\* the history arrives newest first.
RECURSIVE PastMessages_NewestFirst(_)
PastMessages_NewestFirst(h) ==
  IF h = <<>> THEN <<>>
  ELSE PastMessages_NewestFirst(Tail(h)) \o
       (IF Head(h).role # "" /\ Head(h).content # ""
        THEN <<[role |-> Head(h).role, content |-> Head(h).content]>>
        ELSE <<>>)

\* for entry in history: if role and content: messages.append(...)
RECURSIVE PastMessages(_)
PastMessages(h) ==
  IF h = <<>> THEN <<>>
  ELSE (IF Head(h).role # "" /\ Head(h).content # ""
        THEN <<[role |-> Head(h).role, content |-> Head(h).content]>>
        ELSE <<>>) \o PastMessages(Tail(h))

\* chat(history) up to the while loop.
chat_begin(p, h) ==
  /\ loaded
  /\ pc[p] = "idle"
  /\ history' = [history EXCEPT ![p] = h]
  /\ messages' = [messages EXCEPT ![p] =
                    <<[role |-> "system", content |-> SYSTEM_PROMPT]>> \o PastMessages(h)]
  /\ generated_image' = [generated_image EXCEPT ![p] = NoImage]
  /\ pc' = [pc EXCEPT ![p] = "awaiting_model"]
  /\ ret' = NoRet
  /\ UNCHANGED <<nCalls, dbExists, rooms, loaded, row, ok, sold,
                 tool_calls, tc_index, result, out, invocations, toolResponses, requested>>

\* put_message_in_chatbot(message, history)
put_message_in_chatbot(message, h) == h \o <<[role |-> "user", content |-> message]>>

\* The user submits the next message: the chatbot holds the history chat
\* returned, put_message_in_chatbot adds the message, and chat is called with
\* the result.
submit(p, message) ==
  /\ loaded
  /\ pc[p] = "returned"
  /\ history' = [history EXCEPT ![p] = put_message_in_chatbot(message, out[p].history)]
  /\ messages' = [messages EXCEPT ![p] =
                    <<[role |-> "system", content |-> SYSTEM_PROMPT]>> \o PastMessages(history'[p])]
  /\ generated_image' = [generated_image EXCEPT ![p] = NoImage]
  /\ out' = [out EXCEPT ![p] = NoOutput]
  /\ invocations' = [invocations EXCEPT ![p] = 0]
  /\ toolResponses' = [toolResponses EXCEPT ![p] = 0]
  /\ pc' = [pc EXCEPT ![p] = "awaiting_model"]
  /\ ret' = NoRet
  /\ UNCHANGED <<nCalls, dbExists, rooms, loaded, row, ok, sold,
                 tool_calls, tc_index, result, requested>>

\* if message_obj.tool_calls
RequestsTools(message_obj) == Len(message_obj.tool_calls) > 0

\* client.chat.completions.create returns message_obj: it is appended to the
\* transcript, and the loop goes to the for loop or on to the reply.
model_responds(p, message_obj) ==
  /\ loaded
  /\ pc[p] = "awaiting_model"
  /\ invocations' = [invocations EXCEPT ![p] = @ + 1]
  /\ messages' = [messages EXCEPT ![p] = Append(@, message_obj)]
  /\ IF RequestsTools(message_obj)
     THEN /\ tool_calls' = [tool_calls EXCEPT ![p] = message_obj.tool_calls]
          /\ tc_index' = [tc_index EXCEPT ![p] = 1]
          /\ toolResponses' = [toolResponses EXCEPT ![p] = @ + 1]
          /\ requested' = [requested EXCEPT ![p] = @ + Len(message_obj.tool_calls)]
          /\ pc' = [pc EXCEPT ![p] = "dispatch"]
     ELSE /\ pc' = [pc EXCEPT ![p] = "talker"]
          /\ UNCHANGED <<tool_calls, tc_index, toolResponses, requested>>
  /\ ret' = NoRet
  /\ UNCHANGED <<nCalls, dbExists, rooms, loaded, row, ok, sold,
                 history, generated_image, result, out>>

\* client.chat.completions.create raises: the exception leaves chat.
model_fails(p) ==
  /\ loaded
  /\ pc[p] = "awaiting_model"
  /\ invocations' = [invocations EXCEPT ![p] = @ + 1]
  /\ pc' = [pc EXCEPT ![p] = "failed"]
  /\ ret' = NoRet
  /\ UNCHANGED <<nCalls, dbExists, rooms, loaded, row, ok, sold,
                 history, messages, generated_image, tool_calls, tc_index, result, out,
                 toolResponses, requested>>

\* json.loads(tool_call.function.arguments or "{}") does not raise
JsonLoads(arguments) == arguments.json # "invalid"

\* **args binds room_type (the only parameter without a default)
BindsRoomType(arguments) == arguments.json = "object"

\* Mutant of AppendToolResult: every tool message carries the identifier of the
\* first tool call of the response.
AppendToolResult_FirstId(p, value) ==
  /\ messages' = [messages EXCEPT ![p] =
                    Append(@, [role |-> "tool",
                               tool_call_id |-> tool_calls[p][1].id,
                               content |-> value])]
  /\ result' = [result EXCEPT ![p] = NoResult]
  /\ IF tc_index[p] < Len(tool_calls[p])
     THEN /\ tc_index' = [tc_index EXCEPT ![p] = @ + 1]
          /\ pc' = [pc EXCEPT ![p] = "dispatch"]
          /\ UNCHANGED tool_calls
     ELSE /\ tc_index' = [tc_index EXCEPT ![p] = 0]
          /\ tool_calls' = [tool_calls EXCEPT ![p] = <<>>]
          /\ pc' = [pc EXCEPT ![p] = "awaiting_model"]

\* Mutant of AppendToolResult: after the last tool call the loop does not
\* `continue` but falls through to the reply.
AppendToolResult_NoContinue(p, value) ==
  /\ messages' = [messages EXCEPT ![p] =
                    Append(@, [role |-> "tool",
                               tool_call_id |-> tool_calls[p][tc_index[p]].id,
                               content |-> value])]
  /\ result' = [result EXCEPT ![p] = NoResult]
  /\ IF tc_index[p] < Len(tool_calls[p])
     THEN /\ tc_index' = [tc_index EXCEPT ![p] = @ + 1]
          /\ pc' = [pc EXCEPT ![p] = "dispatch"]
          /\ UNCHANGED tool_calls
     ELSE /\ tc_index' = [tc_index EXCEPT ![p] = 0]
          /\ tool_calls' = [tool_calls EXCEPT ![p] = <<>>]
          /\ pc' = [pc EXCEPT ![p] = "talker"]

\* messages.append({"role": "tool", ...}) and the for loop's next iteration,
\* or `continue` to the next model call after the last tool call.
AppendToolResult(p, value) ==
  /\ messages' = [messages EXCEPT ![p] =
                    Append(@, [role |-> "tool",
                               tool_call_id |-> tool_calls[p][tc_index[p]].id,
                               content |-> value])]
  /\ result' = [result EXCEPT ![p] = NoResult]
  /\ IF tc_index[p] < Len(tool_calls[p])
     THEN /\ tc_index' = [tc_index EXCEPT ![p] = @ + 1]
          /\ pc' = [pc EXCEPT ![p] = "dispatch"]
          /\ UNCHANGED tool_calls
     ELSE /\ tc_index' = [tc_index EXCEPT ![p] = 0]
          /\ tool_calls' = [tool_calls EXCEPT ![p] = <<>>]
          /\ pc' = [pc EXCEPT ![p] = "awaiting_model"]

\* An exception leaves chat from inside the for loop.
Raise(p) ==
  /\ pc' = [pc EXCEPT ![p] = "failed"]
  /\ ret' = NoRet
  /\ UNCHANGED <<rooms, row, sold, messages, tool_calls, tc_index, result>>

UnknownToolError(name) == [kind |-> "error", body |-> <<"unknown_tool", name>>]

\* One iteration of the for loop up to the first of: the tool message, an
\* exception, or checkout_room's UPDATE.
chat_dispatch(p) ==
  /\ loaded
  /\ pc[p] = "dispatch"
  /\ LET tool_call == tool_calls[p][tc_index[p]]
         name == tool_call.name
         args == tool_call.arguments
         found == SelectByName(rooms, normalize(args.room_type))
     IN IF ~JsonLoads(args) THEN Raise(p)
        ELSE IF name = "get_room_details"
        THEN IF ~BindsRoomType(args) THEN Raise(p)
             ELSE /\ ret' = Returned("get_room_details", args.room_type,
                                     get_room_details_result(rooms, args.room_type))
                  /\ AppendToolResult(p, get_room_details_result(rooms, args.room_type))
                  /\ UNCHANGED <<rooms, row, sold>>
        ELSE IF name = "checkout_room"
        THEN IF ~BindsRoomType(args) THEN Raise(p)
             ELSE IF RowMissing(found)
             THEN /\ ret' = Returned("checkout_room", args.room_type, NotFoundError(args.room_type))
                  /\ AppendToolResult(p, NotFoundError(args.room_type))
                  /\ UNCHANGED <<rooms, row, sold>>
             ELSE IF FullyBooked(Head(found).availability)
             THEN /\ ret' = Returned("checkout_room", args.room_type, SoldOutError(Head(found).name))
                  /\ AppendToolResult(p, SoldOutError(Head(found).name))
                  /\ sold' = [sold EXCEPT ![Head(found).id] = @ + 1]
                  /\ UNCHANGED <<rooms, row>>
             ELSE /\ pc' = [pc EXCEPT ![p] = "chat_checkout_update"]
                  /\ row' = [row EXCEPT ![p] = Head(found)]
                  /\ ret' = NoRet
                  /\ UNCHANGED <<rooms, sold, messages, tool_calls, tc_index, result>>
        ELSE /\ ret' = NoRet
             /\ AppendToolResult(p, UnknownToolError(name))
             /\ UNCHANGED <<rooms, row, sold>>
  /\ UNCHANGED <<nCalls, dbExists, loaded, ok, history, generated_image, out,
                 invocations, toolResponses, requested>>

\* Mutant of chat_checkout_update: the connection is closed without
\* conn.commit(), so the UPDATE is rolled back and the Confirmation is still
\* returned.
chat_checkout_update_NoCommit(p) ==
  /\ loaded
  /\ pc[p] = "chat_checkout_update"
  /\ LET new_availability == NewAvailability(row[p].availability)
     IN /\ rooms' = rooms
        /\ ret' = Returned("checkout_room", row[p].name, Confirmation(row[p], new_availability))
        /\ result' = [result EXCEPT ![p] = Confirmation(row[p], new_availability)]
  /\ ok' = [ok EXCEPT ![row[p].id] = @ + 1]
  /\ row' = [row EXCEPT ![p] = NoRow]
  /\ pc' = [pc EXCEPT ![p] = "artist"]
  /\ UNCHANGED <<nCalls, dbExists, loaded, sold, history, messages, generated_image, tool_calls,
                 tc_index, out, invocations, toolResponses, requested>>

\* checkout_room's UPDATE, commit and return inside chat; "error" is not in
\* the result and result.get("room") is a non-empty name, so artist is next.
chat_checkout_update(p) ==
  /\ loaded
  /\ pc[p] = "chat_checkout_update"
  /\ LET new_availability == NewAvailability(row[p].availability)
     IN /\ rooms' = UpdateAvailability(rooms, new_availability, row[p].id)
        /\ ret' = Returned("checkout_room", row[p].name, Confirmation(row[p], new_availability))
        /\ result' = [result EXCEPT ![p] = Confirmation(row[p], new_availability)]
  /\ ok' = [ok EXCEPT ![row[p].id] = @ + 1]
  /\ row' = [row EXCEPT ![p] = NoRow]
  /\ pc' = [pc EXCEPT ![p] = "artist"]
  /\ UNCHANGED <<nCalls, dbExists, loaded, sold, history, messages, generated_image, tool_calls,
                 tc_index, out, invocations, toolResponses, requested>>

\* artist(room_prompt) returns an image
Image(room_prompt) == [kind |-> "image", prompt |-> room_prompt]

\* result["image_error"] = f"Image generation failed: {image_error}"
WithImageError(value) ==
  [value EXCEPT !.body = [image_error |-> "Image generation failed"] @@ value.body]

\* Mutant of chat_artist: the call of artist is not inside try/except, an
\* exception of artist leaves chat.
chat_artist_Unhandled(p, generated) ==
  /\ loaded
  /\ pc[p] = "artist"
  /\ IF generated
     THEN /\ generated_image' = [generated_image EXCEPT ![p] = Image(result[p].body.room)]
          /\ AppendToolResult(p, result[p])
     ELSE /\ pc' = [pc EXCEPT ![p] = "failed"]
          /\ UNCHANGED <<generated_image, messages, tool_calls, tc_index, result>>
  /\ ret' = NoRet
  /\ UNCHANGED <<nCalls, dbExists, rooms, loaded, row, ok, sold, history, out,
                 invocations, toolResponses, requested>>

\* Mutant of chat_artist: the except branch does not reset generated_image, so
\* the image of an earlier booking stays after a failed generation.
chat_artist_KeepsImage(p, generated) ==
  /\ loaded
  /\ pc[p] = "artist"
  /\ IF generated
     THEN /\ generated_image' = [generated_image EXCEPT ![p] = Image(result[p].body.room)]
          /\ AppendToolResult(p, result[p])
     ELSE /\ UNCHANGED generated_image
          /\ AppendToolResult(p, WithImageError(result[p]))
  /\ ret' = NoRet
  /\ UNCHANGED <<nCalls, dbExists, rooms, loaded, row, ok, sold, history, out,
                 invocations, toolResponses, requested>>

\* try: generated_image = artist(room_prompt) / except: generated_image = None
\* and result["image_error"]; then the tool message.
chat_artist(p, generated) ==
  /\ loaded
  /\ pc[p] = "artist"
  /\ IF generated
     THEN /\ generated_image' = [generated_image EXCEPT ![p] = Image(result[p].body.room)]
          /\ AppendToolResult(p, result[p])
     ELSE /\ generated_image' = [generated_image EXCEPT ![p] = NoImage]
          /\ AppendToolResult(p, WithImageError(result[p]))
  /\ ret' = NoRet
  /\ UNCHANGED <<nCalls, dbExists, rooms, loaded, row, ok, sold, history, out,
                 invocations, toolResponses, requested>>

\* reply = response.choices[0].message.content
Reply(transcript) == transcript[Len(transcript)].content

\* Mutant of chat_talker: chat returns the transcript it sent to the model
\* (without the system prompt) as the history.
chat_talker_ReturnsTranscript(p, spoken) ==
  /\ loaded
  /\ pc[p] = "talker"
  /\ IF spoken
     THEN /\ history' = [history EXCEPT ![p] = Tail(messages[p])]
          /\ out' = [out EXCEPT ![p] =
                       [kind |-> "returned",
                        history |-> history'[p],
                        voice |-> <<"speech", Reply(messages[p])>>,
                        image |-> generated_image[p]]]
          /\ pc' = [pc EXCEPT ![p] = "returned"]
     ELSE /\ pc' = [pc EXCEPT ![p] = "failed"]
          /\ UNCHANGED <<history, out>>
  /\ ret' = NoRet
  /\ UNCHANGED <<nCalls, dbExists, rooms, loaded, row, ok, sold, messages, generated_image,
                 tool_calls, tc_index, result, invocations, toolResponses, requested>>

\* voice = talker(reply); history += [...]; return history, voice, generated_image
\* (or talker raises and the exception leaves chat).
chat_talker(p, spoken) ==
  /\ loaded
  /\ pc[p] = "talker"
  /\ IF spoken
     THEN /\ history' = [history EXCEPT ![p] =
                           @ \o <<[role |-> "assistant", content |-> Reply(messages[p])]>>]
          /\ out' = [out EXCEPT ![p] =
                       [kind |-> "returned",
                        history |-> history'[p],
                        voice |-> <<"speech", Reply(messages[p])>>,
                        image |-> generated_image[p]]]
          /\ pc' = [pc EXCEPT ![p] = "returned"]
     ELSE /\ pc' = [pc EXCEPT ![p] = "failed"]
          /\ UNCHANGED <<history, out>>
  /\ ret' = NoRet
  /\ UNCHANGED <<nCalls, dbExists, rooms, loaded, row, ok, sold, messages, generated_image,
                 tool_calls, tc_index, result, invocations, toolResponses, requested>>

(***************************************************************************)
(* Specifications.                                                         *)
(***************************************************************************)
Padded == <<" "," ","g","a","r","d","e","n"," ","v","i","e","w"," ","r","o","o","m"," ">>
Shouted == <<"D","E","L","U","X","E"," ","S","U","I","T","E">>
Penthouse == <<"P","e","n","t","h","o","u","s","e">>

\* room_type arguments passed to get_room_details.
QueryTypes ==
  {StrAll, StrRooms, StrAvailable, DeluxeSuite, GardenViewRoom, Padded, Shouted, Penthouse}

\* room_type arguments passed to checkout_room.
CheckoutTypes ==
  {DeluxeSuite, OceanViewRoom, GardenViewRoom, StandardRoom, Padded, Penthouse}

\* A fresh deployment: no hotel.db, no process.
Init ==
  /\ dbExists = FALSE
  /\ rooms = <<>>
  /\ loaded = FALSE
  /\ pc = [p \in Callers |-> "idle"]
  /\ row = [p \in Callers |-> NoRow]
  /\ ret = NoRet
  /\ ok = [i \in RoomIds |-> 0]
  /\ sold = [i \in RoomIds |-> 0]
  /\ nCalls = 0
  /\ ChatIdle

\* Thread p calls one of the three functions.
Call(p) ==
  \/ initialize_database(p)
  \/ \E room_type \in QueryTypes : get_room_details(p, room_type)
  \/ \E room_type \in CheckoutTypes : checkout_room_select(p, room_type)

\* A call is started while the budget of calls lasts.
StartCall(p) ==
  /\ nCalls < MaxCalls
  /\ nCalls' = nCalls + 1
  /\ Call(p)
  /\ UNCHANGED chatVars

\* Threads call the three functions concurrently: a checkout_room's SELECT and
\* its UPDATE are separate steps, each on a connection of its own.
Next ==
  \/ ModuleLoad /\ UNCHANGED <<nCalls, chatVars>>
  \/ ProcessExit /\ UNCHANGED nCalls
  \/ \E p \in Callers : StartCall(p)
  \/ \E p \in Callers : checkout_room_update(p) /\ UNCHANGED <<nCalls, chatVars>>

Spec == Init /\ [][Next]_vars

\* No call is in progress.
Quiescent == \A p \in Callers : pc[p] = "idle"

SoldOutTotal == sold[1] + sold[2] + sold[3] + sold[4]

\* The thread that makes the calls of the sequential specification.
SeqCaller == CHOOSE p \in Callers : \A q \in Callers : p <= q

\* Calls that do not overlap: one thread makes one call after another.
NextSeq ==
  \/ ModuleLoad /\ UNCHANGED <<nCalls, chatVars>>
  \/ ProcessExit /\ UNCHANGED nCalls
  \/ /\ SoldOutTotal < MaxSoldOut
     /\ Call(SeqCaller)
     /\ UNCHANGED <<nCalls, chatVars>>
  \/ checkout_room_update(SeqCaller) /\ UNCHANGED <<nCalls, chatVars>>

SpecSeq == Init /\ [][NextSeq]_vars

(***************************************************************************)
(* Concurrent reservations of different rooms: every thread reserves a     *)
(* room of its own.                                                        *)
(***************************************************************************)
\* The id of the room thread p reserves.
OwnRoom(p) == <<3, 1, 2, 4>>[p]

\* The room_type arguments that name thread p's room.
OwnTypes(p) ==
  {t \in CheckoutTypes \cup {Shouted} : normalize(t) = sql_LOWER(SeedRooms[OwnRoom(p)][1])}

NextRooms ==
  \/ ModuleLoad /\ UNCHANGED <<nCalls, chatVars>>
  \/ \E p \in Callers :
       /\ SoldOutTotal < MaxSoldOut
       /\ \E room_type \in OwnTypes(p) : checkout_room_select(p, room_type)
       /\ UNCHANGED <<nCalls, chatVars>>
  \/ \E p \in Callers : checkout_room_update(p) /\ UNCHANGED <<nCalls, chatVars>>

SpecRooms == Init /\ [][NextRooms]_vars

(***************************************************************************)
(* One chat invocation against the store.                                  *)
(***************************************************************************)
\* The histories the UI passes to chat; an entry with empty content is one the
\* chatbot holds for a message without text.
Histories ==
  { <<[role |-> "user", content |-> "Hello"]>>,
    <<[role |-> "user", content |-> "Do you have rooms?"],
      [role |-> "assistant", content |-> "Yes, which type?"],
      [role |-> "user", content |-> "Garden View Room"]>>,
    <<[role |-> "user", content |-> "Hi"],
      [role |-> "assistant", content |-> ""],
      [role |-> "user", content |-> "Book the garden room"]>> }

ObjectArgs(room_type) == [json |-> "object", room_type |-> room_type]

\* The tool calls the model may request: name and arguments. The arguments are
\* a JSON object with room_type, an empty string (loaded as {}), or text that
\* is not JSON.
ToolRequests ==
  { [name |-> "get_room_details", arguments |-> ObjectArgs(StrAvailable)],
    [name |-> "checkout_room", arguments |-> ObjectArgs(GardenViewRoom)],
    [name |-> "checkout_room", arguments |-> ObjectArgs(Shouted)],
    [name |-> "checkout_room", arguments |-> ObjectArgs(Penthouse)],
    [name |-> "book_spa", arguments |-> [json |-> "empty", room_type |-> <<>>]],
    [name |-> "get_room_details", arguments |-> [json |-> "invalid", room_type |-> <<>>]],
    [name |-> "checkout_room", arguments |-> [json |-> "empty", room_type |-> <<>>]],
    [name |-> "book_spa", arguments |-> [json |-> "invalid", room_type |-> <<>>]] }

\* The responses of the model to thread p: a text without tool calls, or up to
\* the remaining budget of tool calls drawn from `requests`, each with an
\* identifier of its own.
ModelResponses(p, requests) ==
  { [role |-> "assistant", content |-> "Certainly.", tool_calls |-> <<>>] } \cup
  UNION { { [role |-> "assistant", content |-> "",
             tool_calls |-> [i \in 1..n |-> [id |-> requested[p] + i, name |-> f[i].name,
                                              arguments |-> f[i].arguments]]] :
            f \in [1..n -> requests] } :
          n \in 1..(MaxToolCalls - requested[p]) }

\* The steps of thread p inside chat.
ChatStep(p, requests) ==
  \/ \E message_obj \in ModelResponses(p, requests) : model_responds(p, message_obj)
  \/ model_fails(p)
  \/ chat_dispatch(p)
  \/ chat_checkout_update(p)
  \/ \E generated \in BOOLEAN : chat_artist(p, generated)
  \/ \E spoken \in BOOLEAN : chat_talker(p, spoken)

NextChat ==
  \/ ModuleLoad /\ UNCHANGED <<nCalls, chatVars>>
  \/ \E h \in Histories : chat_begin(SeqCaller, h)
  \/ ChatStep(SeqCaller, ToolRequests)

SpecChat == Init /\ [][NextChat]_vars

(***************************************************************************)
(* The loop of one chat invocation, with fairness.                         *)
(***************************************************************************)
LoopHistories == { <<[role |-> "user", content |-> "Hello"]>> }

LoopRequests ==
  { [name |-> "get_room_details", arguments |-> ObjectArgs(StrAvailable)],
    [name |-> "checkout_room", arguments |-> ObjectArgs(GardenViewRoom)],
    [name |-> "book_spa", arguments |-> [json |-> "empty", room_type |-> <<>>]] }

NextLoop ==
  \/ ModuleLoad /\ UNCHANGED <<nCalls, chatVars>>
  \/ \E h \in LoopHistories : chat_begin(SeqCaller, h)
  \/ ChatStep(SeqCaller, LoopRequests)

\* A thread inside chat keeps running, and every call it makes to the model,
\* the image service or the speech service comes back with a result or an
\* exception.
SpecLoopFair == Init /\ [][NextLoop]_vars /\ WF_vars(ChatStep(SeqCaller, LoopRequests))

(***************************************************************************)
(* A conversation: chat invocations one after the other, each on the       *)
(* history the one before returned plus the user's next message.           *)
(***************************************************************************)
\* The texts the user submits; the textbox may be empty.
UserMessages == {"Book it please", ""}

NextTurns ==
  \/ ModuleLoad /\ UNCHANGED <<nCalls, chatVars>>
  \/ \E h \in LoopHistories : chat_begin(SeqCaller, h)
  \/ \E message \in UserMessages :
       /\ pc[SeqCaller] = "returned"
       /\ Len(out[SeqCaller].history) < MaxHistory
       /\ submit(SeqCaller, message)
  \/ ChatStep(SeqCaller, LoopRequests)

SpecTurns == Init /\ [][NextTurns]_vars

(***************************************************************************)
(* Properties of the inventory.                                            *)
(***************************************************************************)
IsConfirmation(r) == r.op = "checkout_room" /\ r.result.kind = "confirmation"
IsCheckoutError(r) == r.op = "checkout_room" /\ r.result.kind = "error"
IsSoldOut(r) == IsCheckoutError(r) /\ r.result.body[1] = "fully_booked"
IsQuery(r) == r.op = "get_room_details"
Ids(table) == 1..Len(table)

\* C1: once more checkout_room calls on a room seeded with M units have
\* returned than it had units, and none is in progress, exactly M of them
\* returned a Confirmation, the others the fully-booked error, and the room's
\* availability is 0.
C1_NoOverbooking ==
  \A i \in Ids(rooms) :
    (Quiescent /\ ok[i] + sold[i] > SeedAvailability(i)) =>
      /\ ok[i] = SeedAvailability(i)
      /\ sold[i] = (ok[i] + sold[i]) - SeedAvailability(i)
      /\ rooms[i].availability = 0

\* C2: no stored availability is ever negative; a thread goes on to the UPDATE
\* only with a row whose availability it read as positive, and a step that
\* returns the fully-booked error found availability 0 and leaves the table
\* as it was.
C2_NeverNegative ==
  /\ [](\A i \in Ids(rooms) : rooms[i].availability >= 0)
  /\ [](\A p \in Callers : pc[p] = "checkout_update" => row[p].availability > 0)
  /\ [][IsSoldOut(ret') =>
          /\ rooms' = rooms
          /\ \E i \in Ids(rooms) :
               rooms[i].name = ret'.result.body[2] /\ rooms[i].availability = 0]_vars

C2_Witness ==
  /\ IsSoldOut(ret)
  /\ ret.result.body[2] = GardenViewRoom
  /\ rooms[3].availability = 0

\* C3: from one state to the next a room's availability stays or goes down by
\* exactly 1, and it goes down only in a step that returns a Confirmation.
C3_OnlyDecrements ==
  [][\A i \in Ids(rooms) \cap Ids(rooms') :
       \/ rooms'[i].availability = rooms[i].availability
       \/ /\ rooms'[i].availability = rooms[i].availability - 1
          /\ IsConfirmation(ret')]_vars

\* C4: with calls that do not overlap, a room seeded with k units has
\* availability k minus the Confirmations given for it; a Confirmation carries
\* that new stored value as remaining_availability; the fully-booked error is
\* returned only once all k Confirmations were given (so the first k calls are
\* confirmed with k-1, ..., 0 and every later one is refused), when the stored
\* availability is 0.
C4_SequentialCheckouts ==
  \A i \in Ids(rooms) :
    /\ ok[i] <= SeedAvailability(i)
    /\ rooms[i].availability = SeedAvailability(i) - ok[i]
    /\ sold[i] > 0 => ok[i] = SeedAvailability(i)
    /\ (IsConfirmation(ret) /\ ret.result.body.room = rooms[i].name) =>
         /\ ok[i] >= 1
         /\ ret.result.body.remaining_availability = SeedAvailability(i) - ok[i]
    /\ (IsSoldOut(ret) /\ ret.result.body[2] = rooms[i].name) =>
         /\ sold[i] >= 1
         /\ rooms[i].availability = 0

C4_Witness ==
  /\ IsSoldOut(ret)
  /\ ok[3] = 1 /\ sold[3] = 1
  /\ ok[2] = 4 /\ sold[2] = 1

\* C5: a step in which checkout_room returns an error (not found, or fully
\* booked) leaves the table as it was.
C5_ErrorWritesNothing ==
  [][IsCheckoutError(ret') => rooms' = rooms]_vars

C5_Witness ==
  /\ IsSoldOut(ret)
  /\ \E i \in Ids(rooms) : rooms[i].availability > 0 /\ rooms[i].availability < SeedAvailability(i)

\* C6: once the table is seeded no step adds or removes a row or changes a
\* row's id, name, description or price; a step that changes the table returns
\* a Confirmation and changes the availability of the one room it names; room
\* names stay unique.
C6_Frame ==
  /\ [][rooms # <<>> =>
          /\ Len(rooms') = Len(rooms)
          /\ \A i \in Ids(rooms) :
               /\ rooms'[i].id = rooms[i].id
               /\ rooms'[i].name = rooms[i].name
               /\ rooms'[i].description = rooms[i].description
               /\ rooms'[i].price_per_night = rooms[i].price_per_night
          /\ rooms' # rooms =>
               /\ IsConfirmation(ret')
               /\ \A i \in Ids(rooms) :
                    rooms'[i] # rooms[i] => rooms[i].name = ret'.result.body.room]_vars
  /\ [](\A i, j \in Ids(rooms) : rooms[i].name = rooms[j].name => i = j)

C6_Witness ==
  /\ IsConfirmation(ret)
  /\ ret.result.body.room = OceanViewRoom
  /\ rooms[2].availability = 3
  /\ rooms[1].availability = 5

\* The four rows of a freshly seeded table.
SeedNames == <<DeluxeSuite, OceanViewRoom, GardenViewRoom, StandardRoom>>
SeedUnits == <<6, 4, 1, 10>>
IsSeedTable(table) ==
  /\ Len(table) = 4
  /\ \A i \in 1..4 :
       /\ table[i].id = i
       /\ table[i].name = SeedNames[i]
       /\ table[i].availability = SeedUnits[i]

\* C7: initialize_database turns an empty table into the four seed rooms with
\* availability 6, 4, 1, 10 and leaves a table that has rows as it is; the
\* module's start-up does the same when hotel.db does not exist and touches
\* nothing when it exists. So neither restores a reserved room.
C7_SeedOnce ==
  [][/\ ret'.op = "initialize_database" =>
          IF rooms = <<>> THEN IsSeedTable(rooms') ELSE rooms' = rooms
     /\ ret'.op = "module_load" =>
          IF dbExists THEN rooms' = rooms ELSE IsSeedTable(rooms')]_vars

C7_Witness ==
  /\ ret.op = "initialize_database"
  /\ ok[3] = 1
  /\ rooms[3].availability = 0
  /\ rooms[1].availability = 5

\* C8: get_room_details("all") and ("rooms") return one entry for every row,
\* rows with availability 0 included; get_room_details("available") returns
\* entries for exactly the rows with availability > 0; each entry carries the
\* row's description, price and current availability.
C8_QueryContents ==
  LET Entry(r) == [description |-> r.description, price_per_night |-> r.price_per_night,
                   availability |-> r.availability]
      Shown == IF ret.arg = StrAvailable
               THEN {i \in Ids(rooms) : rooms[i].availability > 0}
               ELSE Ids(rooms)
  IN (IsQuery(ret) /\ ret.arg \in {StrAll, StrRooms, StrAvailable}) =>
       /\ ret.arg \in {StrAll, StrRooms} => ret.result.kind = "rooms"
       /\ ret.result.kind = "rooms" =>
            /\ DOMAIN ret.result.body = {rooms[i].name : i \in Shown}
            /\ \A i \in Shown : ret.result.body[rooms[i].name] = Entry(rooms[i])

C8_Witness ==
  /\ IsQuery(ret)
  /\ ret.arg = StrAvailable
  /\ ret.result.kind = "rooms"
  /\ rooms[3].availability = 0
  /\ rooms[2].availability = 0

\* C9: get_room_details returns the not-found error exactly when no row
\* matches: no row at all for "all"/"rooms", no row with availability > 0 for
\* "available", no row of that name (case-insensitively) otherwise; in every
\* other case it returns a non-empty mapping.
C9_NotFoundIffEmpty ==
  LET rt == str_lower(str_strip(ret.arg))
      Matches == IF rt \in {StrAll, StrRooms} THEN Ids(rooms)
                 ELSE IF rt = StrAvailable THEN {i \in Ids(rooms) : rooms[i].availability > 0}
                 ELSE {i \in Ids(rooms) : str_lower(rooms[i].name) = rt}
  IN IsQuery(ret) =>
       /\ ret.result.kind \in {"error", "rooms"}
       /\ ret.result.kind = "error" <=> Matches = {}
       /\ ret.result.kind = "error" => ret.result.body[1] = "not_found"
       /\ ret.result.kind = "rooms" => DOMAIN ret.result.body # {}

C9_Witness ==
  /\ IsQuery(ret)
  /\ ret.arg = StrAvailable
  /\ ret.result.kind = "error"
  /\ \A i \in Ids(rooms) : rooms[i].availability = 0
  /\ Len(rooms) = 4

(***************************************************************************)
(* Properties of chat.                                                     *)
(***************************************************************************)
InLoop(p) == pc[p] \in {"awaiting_model", "dispatch", "chat_checkout_update", "artist"}
LastMessage(p) == messages[p][Len(messages[p])]

\* C10: chat reaches its reply (talker, then the return) only straight from a
\* model response with no tool calls, and then the model has been called once
\* more than it answered with tool calls; while every response so far asked for
\* tools chat is still in the loop or has failed, never returned. Once the
\* model has answered without tool calls chat returns, unless talker raises.
C10_LoopTermination ==
  /\ [](\A p \in {SeqCaller} :
          pc[p] \in {"talker", "returned"} =>
            /\ invocations[p] = toolResponses[p] + 1
            /\ LastMessage(p).role = "assistant"
            /\ LastMessage(p).tool_calls = <<>>)
  /\ [](\A p \in {SeqCaller} : InLoop(p) => invocations[p] = toolResponses[p])
  /\ [](\A p \in {SeqCaller} : invocations[p] = toolResponses[p] => pc[p] # "returned")
  /\ [][\A p \in {SeqCaller} :
          /\ (pc'[p] = "talker" /\ pc[p] # "talker") =>
               /\ pc[p] = "awaiting_model"
               /\ messages'[p][Len(messages'[p])].tool_calls = <<>>
               /\ Len(messages'[p]) = Len(messages[p]) + 1
          /\ (pc'[p] = "returned" /\ pc[p] # "returned") => pc[p] = "talker"
          /\ (pc'[p] = "awaiting_model" /\ InLoop(p) /\ pc[p] # "awaiting_model") =>
               tc_index[p] = Len(tool_calls[p])]_vars
  /\ (pc[SeqCaller] = "talker") ~> (pc[SeqCaller] \in {"returned", "failed"})
  /\ (pc[SeqCaller] \in {"dispatch", "chat_checkout_update", "artist"})
       ~> (pc[SeqCaller] \in {"awaiting_model", "failed"})

C10_Witness ==
  /\ pc[SeqCaller] = "returned"
  /\ toolResponses[SeqCaller] = 2
  /\ invocations[SeqCaller] = 3
  /\ requested[SeqCaller] = 3

\* A transcript entry that is a model response with tool calls / a tool result.
IsToolRequest(m) == "tool_calls" \in DOMAIN m /\ m.tool_calls # <<>>
IsToolResult(m) == "tool_call_id" \in DOMAIN m

\* The tool results that follow entry j of the transcript without a gap.
RECURSIVE Answers(_, _)
Answers(transcript, j) ==
  IF j < Len(transcript) /\ IsToolResult(transcript[j + 1])
  THEN 1 + Answers(transcript, j + 1)
  ELSE 0

\* The arguments of a tool call parse and bind the parameter of its function.
WellFormed(tool_call) ==
  /\ JsonLoads(tool_call.arguments)
  /\ tool_call.name \in {"get_room_details", "checkout_room"} => BindsRoomType(tool_call.arguments)

\* `content` is a value the operation the tool call names can return for its
\* arguments.
AnswersRequest(tool_call, content) ==
  IF tool_call.name = "get_room_details"
  THEN \/ content.kind = "rooms"
       \/ content = NotFoundError(normalize(tool_call.arguments.room_type))
  ELSE IF tool_call.name = "checkout_room"
  THEN \/ /\ content.kind = "confirmation"
          /\ str_lower(content.body.room) = normalize(tool_call.arguments.room_type)
       \/ content = NotFoundError(tool_call.arguments.room_type)
       \/ /\ content.kind = "error" /\ content.body[1] = "fully_booked"
          /\ str_lower(content.body[2]) = normalize(tool_call.arguments.room_type)
  ELSE content = UnknownToolError(tool_call.name)

InRound(p) == pc[p] \in {"dispatch", "chat_checkout_update", "artist"}

\* C11: in the transcript every model response with k tool calls is followed
\* by tool results for its first calls, in the order of the calls, each under
\* the identifier of its own call and holding a result of the operation that
\* call names; the response is answered in full (exactly k results) before
\* anything else is appended and whenever the model is about to be called
\* again. Inside a round the results appended so far are those of the calls
\* before the current one, each step appends at most one entry and keeps the
\* earlier ones, the operation that returns is the current call's, the model
\* is called only between rounds, and a round is left by an exception only at a
\* tool call whose arguments are not well-formed.
C11_RoundAnswered ==
  /\ [](\A p \in {SeqCaller} : \A j \in 1..Len(messages[p]) :
          IsToolRequest(messages[p][j]) =>
            /\ Answers(messages[p], j) <= Len(messages[p][j].tool_calls)
            /\ \A i \in 1..Answers(messages[p], j) :
                 /\ messages[p][j + i].tool_call_id = messages[p][j].tool_calls[i].id
                 /\ AnswersRequest(messages[p][j].tool_calls[i], messages[p][j + i].content)
            /\ (j + Answers(messages[p], j) < Len(messages[p]) \/ pc[p] \in {"awaiting_model", "talker", "returned"})
                 => Answers(messages[p], j) = Len(messages[p][j].tool_calls)
            /\ (InRound(p) /\ j + Answers(messages[p], j) = Len(messages[p])) =>
                 /\ tool_calls[p] = messages[p][j].tool_calls
                 /\ Answers(messages[p], j) = tc_index[p] - 1)
  /\ [](\A p \in {SeqCaller} : \A j \in 1..Len(messages[p]) :
          IsToolResult(messages[p][j]) =>
            \E r \in 1..(j - 1) : IsToolRequest(messages[p][r]) /\ r + Answers(messages[p], r) >= j)
  /\ [][\A p \in {SeqCaller} :
          /\ pc[p] # "idle" =>
               /\ Len(messages'[p]) \in {Len(messages[p]), Len(messages[p]) + 1}
               /\ SubSeq(messages'[p], 1, Len(messages[p])) = messages[p]
          /\ invocations'[p] # invocations[p] => pc[p] = "awaiting_model"
          /\ (InRound(p) /\ ret'.op # "none") => ret'.op = tool_calls[p][tc_index[p]].name
          /\ (InRound(p) /\ pc'[p] = "failed") => ~WellFormed(tool_calls[p][tc_index[p]])
          /\ (InRound(p) /\ WellFormed(tool_calls[p][tc_index[p]]) /\ tc_index'[p] # tc_index[p]) =>
               /\ Len(messages'[p]) = Len(messages[p]) + 1
               /\ messages'[p][Len(messages'[p])].tool_call_id = tool_calls[p][tc_index[p]].id]_vars

C11_Witness ==
  /\ pc[SeqCaller] = "awaiting_model"
  /\ Len(messages[SeqCaller]) >= 5
  /\ LET j == Len(messages[SeqCaller]) - 3
     IN /\ IsToolRequest(messages[SeqCaller][j])
        /\ Len(messages[SeqCaller][j].tool_calls) = 3
        /\ messages[SeqCaller][j].tool_calls[1].name = "checkout_room"
        /\ messages[SeqCaller][j].tool_calls[2].name = "get_room_details"
        /\ messages[SeqCaller][j + 1].content.kind = "confirmation"
        /\ messages[SeqCaller][j + 3].tool_call_id = messages[SeqCaller][j].tool_calls[3].id

\* The names chat dispatches on.
KnownTools == {"get_room_details", "checkout_room"}

\* C12: a step of the for loop at a tool call whose name is not one chat
\* dispatches on reads and writes nothing in the store, appends the tool
\* message with the unknown-tool error under that call's identifier, and goes
\* on to the next tool call of the response or, after the last one, back to
\* the model call; it does not end or fail the invocation.
C12_UnknownTool ==
  [][\A p \in {SeqCaller} :
       (pc[p] = "dispatch" /\ tool_calls[p][tc_index[p]].name \notin KnownTools) =>
         /\ rooms' = rooms
         /\ row' = row
         /\ ret'.op = "none"
         /\ messages'[p] = Append(messages[p],
                                  [role |-> "tool",
                                   tool_call_id |-> tool_calls[p][tc_index[p]].id,
                                   content |-> UnknownToolError(tool_calls[p][tc_index[p]].name)])
         /\ IF tc_index[p] < Len(tool_calls[p])
            THEN pc'[p] = "dispatch" /\ tc_index'[p] = tc_index[p] + 1 /\ tool_calls'[p] = tool_calls[p]
            ELSE pc'[p] = "awaiting_model"]_vars

\* The row of the room a Confirmation names.
BookedRow(table, value) ==
  table[CHOOSE i \in Ids(table) : table[i].name = value.body.room]

HasImageError(value) == "image_error" \in DOMAIN value.body

\* C13: when chat is about to call artist, checkout_room has returned a
\* Confirmation and the store holds the decremented availability it reports.
\* Whether artist returns an image or raises, the step leaves the store as it
\* is, does not fail the invocation, and appends under the call's identifier a
\* tool message that is the Confirmation (not an error), with image_error
\* added exactly when no image was generated; the loop goes on to the next
\* tool call or back to the model call.
C13_ImageFailureKeepsBooking ==
  /\ [](\A p \in {SeqCaller} : pc[p] = "artist" =>
          /\ result[p].kind = "confirmation"
          /\ ~HasImageError(result[p])
          /\ BookedRow(rooms, result[p]).availability = result[p].body.remaining_availability
          /\ BookedRow(rooms, result[p]).availability
               = SeedAvailability(BookedRow(rooms, result[p]).id) - ok[BookedRow(rooms, result[p]).id]
          /\ ok[BookedRow(rooms, result[p]).id] >= 1)
  /\ [][\A p \in {SeqCaller} : pc[p] = "artist" =>
          /\ rooms' = rooms
          /\ ok' = ok
          /\ pc'[p] = IF tc_index[p] < Len(tool_calls[p]) THEN "dispatch" ELSE "awaiting_model"
          /\ Len(messages'[p]) = Len(messages[p]) + 1
          /\ SubSeq(messages'[p], 1, Len(messages[p])) = messages[p]
          /\ messages'[p][Len(messages'[p])].role = "tool"
          /\ messages'[p][Len(messages'[p])].tool_call_id = tool_calls[p][tc_index[p]].id
          /\ messages'[p][Len(messages'[p])].content.kind = "confirmation"
          /\ \A f \in DOMAIN result[p].body :
               messages'[p][Len(messages'[p])].content.body[f] = result[p].body[f]
          /\ DOMAIN messages'[p][Len(messages'[p])].content.body \subseteq
               DOMAIN result[p].body \cup {"image_error"}
          /\ HasImageError(messages'[p][Len(messages'[p])].content) <=> generated_image'[p] = NoImage]_vars

C13_Witness ==
  /\ pc[SeqCaller] = "awaiting_model"
  /\ IsToolResult(LastMessage(SeqCaller))
  /\ LastMessage(SeqCaller).content.kind = "confirmation"
  /\ HasImageError(LastMessage(SeqCaller).content)
  /\ LastMessage(SeqCaller).content.body.room = GardenViewRoom
  /\ rooms[3].availability = 0
  /\ generated_image[SeqCaller] = NoImage

\* C14: in one chat invocation every room's stored availability is what it was
\* seeded with minus the Confirmations checkout_room returned for it; no step
\* of the invocation raises an availability, and the step in which the
\* invocation fails (the model call raises, talker raises, or a tool call's
\* arguments are rejected) leaves the store as it is. So after a failure the
\* store still holds every decrement, and chat has returned nothing.
C14_NoRollback ==
  /\ [](\A i \in Ids(rooms) : rooms[i].availability = SeedAvailability(i) - ok[i])
  /\ [](\A p \in {SeqCaller} : pc[p] = "failed" => out[p] = NoOutput)
  /\ [][\A p \in {SeqCaller} :
          /\ \A i \in Ids(rooms) : rooms'[i].availability <= rooms[i].availability
          /\ pc'[p] = "failed" => (rooms' = rooms /\ ok' = ok)
          /\ pc[p] = "failed" => (rooms' = rooms /\ pc'[p] = "failed")]_vars

C14_Witness ==
  /\ pc[SeqCaller] = "failed"
  /\ ok[3] = 1
  /\ rooms[3].availability = 0
  /\ out[SeqCaller] = NoOutput
  /\ invocations[SeqCaller] = 2
  /\ toolResponses[SeqCaller] = 1
  /\ IsToolRequest(LastMessage(SeqCaller)) = FALSE
  /\ LastMessage(SeqCaller).role = "assistant"

\* chat is about to call the model for the first time.
FirstCall(p) == pc[p] = "awaiting_model" /\ invocations[p] = 0

\* C15 as stated: the transcript of the first model call is the system prompt
\* followed by every entry of the supplied history, in order, with its role
\* and content.
C15_WholeHistorySent ==
  \A p \in {SeqCaller} : FirstCall(p) =>
    /\ Len(messages[p]) = 1 + Len(history[p])
    /\ messages[p][1] = [role |-> "system", content |-> SYSTEM_PROMPT]
    /\ \A i \in 1..Len(history[p]) :
         /\ messages[p][i + 1].role = history[p][i].role
         /\ messages[p][i + 1].content = history[p][i].content

\* The positions of the history entries that have a role and a content.
Kept(h) == {i \in 1..Len(h) : h[i].role # "" /\ h[i].content # ""}

\* C15, amended: the transcript of the first model call is the system prompt,
\* once and first, followed by the entries of the supplied history whose role
\* and content are both non-empty, in the supplied order, with role and
\* content; entries with an empty role or content are left out, no other
\* entry is.
C15_NonEmptyHistorySent ==
  \A p \in {SeqCaller} : FirstCall(p) =>
    /\ Len(messages[p]) = 1 + Cardinality(Kept(history[p]))
    /\ messages[p][1] = [role |-> "system", content |-> SYSTEM_PROMPT]
    /\ \A j \in 2..Len(messages[p]) : messages[p][j].role # "system"
    /\ \A i \in Kept(history[p]) :
         LET j == 1 + Cardinality({n \in Kept(history[p]) : n <= i})
         IN /\ messages[p][j].role = history[p][i].role
            /\ messages[p][j].content = history[p][i].content

C15_Witness ==
  /\ FirstCall(SeqCaller)
  /\ Len(history[SeqCaller]) = 3
  /\ history[SeqCaller][2].content = ""
  /\ Len(messages[SeqCaller]) = 3
  /\ messages[SeqCaller][3].content = history[SeqCaller][3].content

\* C16: when the threads reserve different rooms, under every interleaving of
\* their SELECT and UPDATE steps: the row a thread holds between its SELECT
\* and its UPDATE is the row in the store; an UPDATE changes the availability
\* of the thread's own room only, to one less than stored; a call is refused
\* exactly when its room's stored availability is 0; and as in a sequential
\* run each room's availability is its seed minus the Confirmations given for
\* it, a Confirmation reports that value, and a room is refused only once all
\* its units are confirmed. The store after the calls so depends only on how
\* many calls each room received, not on their order.
C16_DifferentRoomsIndependent ==
  /\ [](\A p \in Callers : pc[p] = "checkout_update" =>
          /\ row[p].id = OwnRoom(p)
          /\ row[p] = rooms[row[p].id])
  /\ [](\A i \in Ids(rooms) :
          /\ rooms[i].availability = SeedAvailability(i) - ok[i]
          /\ ok[i] <= SeedAvailability(i)
          /\ sold[i] > 0 => (ok[i] = SeedAvailability(i) /\ rooms[i].availability = 0)
          /\ (IsConfirmation(ret) /\ ret.result.body.room = rooms[i].name) =>
               ret.result.body.remaining_availability = rooms[i].availability)
  /\ [][\A p \in Callers :
          /\ (pc[p] = "checkout_update" /\ pc'[p] = "idle") =>
               /\ IsConfirmation(ret')
               /\ \A i \in Ids(rooms) :
                    rooms'[i] = IF i = OwnRoom(p)
                                THEN [rooms[i] EXCEPT !.availability = rooms[i].availability - 1]
                                ELSE rooms[i]
          /\ (pc[p] = "idle" /\ pc'[p] = "checkout_update") => rooms[OwnRoom(p)].availability > 0
          /\ (loaded /\ pc[p] = "idle" /\ sold'[OwnRoom(p)] # sold[OwnRoom(p)]) =>
               /\ rooms[OwnRoom(p)].availability = 0
               /\ IsSoldOut(ret')
               /\ rooms' = rooms]_vars

C16_Witness ==
  /\ IsConfirmation(ret)
  /\ ret.result.body.room = DeluxeSuite
  /\ ret.result.body.remaining_availability = 0
  /\ pc[1] = "checkout_update"
  /\ row[1].name = GardenViewRoom
  /\ rooms[3].availability = 1

\* A history entry as the chatbot holds it: a role and a content, nothing of
\* a tool call.
IsPlainEntry(m) == DOMAIN m = {"role", "content"} /\ m.role \in {"user", "assistant"}

\* C17: from the call of chat to its reply the supplied history is not
\* touched; the step in which chat returns gives back that history followed
\* by one assistant entry holding the text of the model's last response, and
\* no other entry: nothing of the tool requests and tool results of the loop.
\* So the transcript of the first model call of every invocation, the first
\* of a conversation or a later one, holds only the system prompt and plain
\* user and assistant entries.
C17_ReturnedHistory ==
  /\ [][\A p \in {SeqCaller} :
          /\ (InLoop(p) /\ pc'[p] # "returned") => history'[p] = history[p]
          /\ (pc'[p] = "returned" /\ pc[p] # "returned") =>
               /\ pc[p] = "talker"
               /\ ~IsToolRequest(LastMessage(p))
               /\ out'[p].history =
                    history[p] \o <<[role |-> "assistant", content |-> LastMessage(p).content]>>
               /\ history'[p] = out'[p].history]_vars
  /\ [](\A p \in {SeqCaller} : pc[p] = "returned" =>
          /\ Len(out[p].history) = Len(history[p])
          /\ \A i \in 1..Len(out[p].history) : IsPlainEntry(out[p].history[i])
          /\ Cardinality({i \in 1..Len(out[p].history) : out[p].history[i].role = "assistant"})
               <= Cardinality({i \in 1..Len(out[p].history) : out[p].history[i].role = "user"}))
  /\ [](\A p \in {SeqCaller} : FirstCall(p) =>
          /\ Len(messages[p]) = 1 + Cardinality(Kept(history[p]))
          /\ \A j \in 2..Len(messages[p]) :
               ~IsToolRequest(messages[p][j]) /\ ~IsToolResult(messages[p][j])
               /\ IsPlainEntry(messages[p][j]))

C17_Witness ==
  /\ FirstCall(SeqCaller)
  /\ requested[SeqCaller] >= 2
  /\ Len(history[SeqCaller]) = 3
  /\ history[SeqCaller][2] = [role |-> "assistant", content |-> "Certainly."]
  /\ Len(messages[SeqCaller]) = 4
  /\ ok[3] = 1

\* The positions of the tool results in the transcript that are Confirmations.
Bookings(transcript) ==
  {j \in 1..Len(transcript) :
     IsToolResult(transcript[j]) /\ transcript[j].content.kind = "confirmation"}

LastBooking(transcript) ==
  CHOOSE j \in Bookings(transcript) : \A n \in Bookings(transcript) : n <= j

\* The image the last Confirmation of the transcript stands for: none without
\* a Confirmation or when it carries image_error, else the image of its room.
ImageOfLastBooking(transcript) ==
  IF Bookings(transcript) = {} THEN NoImage
  ELSE IF HasImageError(transcript[LastBooking(transcript)].content) THEN NoImage
  ELSE Image(transcript[LastBooking(transcript)].content.body.room)

\* C18: all through an invocation generated_image is the image of the last
\* Confirmation answered so far (none if its generation failed, none if there
\* is no Confirmation), and that is the image chat returns; a for-loop step
\* that answers get_room_details, an unknown tool or a checkout_room error
\* leaves generated_image as it is.
C18_ImageOfLastBooking ==
  /\ [](\A p \in {SeqCaller} :
          pc[p] # "idle" => generated_image[p] = ImageOfLastBooking(messages[p]))
  /\ [](\A p \in {SeqCaller} :
          pc[p] = "returned" => out[p].image = ImageOfLastBooking(messages[p]))
  /\ [][\A p \in {SeqCaller} :
          pc[p] # "artist" => generated_image'[p] = generated_image[p]]_vars

C18_Witness ==
  /\ pc[SeqCaller] = "returned"
  /\ out[SeqCaller].image = NoImage
  /\ Cardinality(Bookings(messages[SeqCaller])) = 2
  /\ \E j \in Bookings(messages[SeqCaller]) : ~HasImageError(messages[SeqCaller][j].content)
  /\ HasImageError(messages[SeqCaller][LastBooking(messages[SeqCaller])].content)
  /\ IsToolResult(messages[SeqCaller][Len(messages[SeqCaller]) - 1])
  /\ messages[SeqCaller][Len(messages[SeqCaller]) - 1].content.kind = "error"

====
